---- MODULE Spec2Model ----
\* Frame hierarchy, status state machine and retry-iteration protocol of
\* timeframe/timeframe.py (TimeFrame -> Event -> Action -> Attempt).
EXTENDS Integers, Sequences, FiniteSets, TLC

\* ---------------------------------------------------------------- bounds
MaxEvents == 2
MaxActions == 2
MaxRetries == 2
MaxFrames == 5
MaxApiFrames == 4
MaxApiCalls == 2
RecursionLimit == 3
MaxLimitSteps == 8

\* ------------------------------------------------------------ State enum
\* class State(enum.Enum): the severity values.
StateValue ==
  [FUTURE |-> 16384, LOADING |-> 32768, SUCCESS |-> 45056,
   ISSUE |-> 61440, FAILED |-> 65520, FATAL |-> 65535]

State == DOMAIN StateValue

\* Exception classes that occur: the two errors an attempt body raises in
\* test.py, a base class of one of them, and the two StopIteration subclasses.
ErrorTypes == {"ValueError", "TimeoutError"}

IgnoreSets == {{}, {"TimeoutError"}, {"OSError"}}

\* Values that are not members of State: a member's number, a member's
\* name as a string, and None.
NonStates == {"0xb000", "'SUCCESS'", "None"}

\* issubclass(exc_type, cls) on the builtin hierarchy.
issubclass(exc, cls) ==
  \/ exc = cls
  \/ exc = "TimeoutError" /\ cls = "OSError"
  \/ cls = "Exception"

Containers == {"TimeFrame", "Event", "Action"}

Modes == {"sync", "async"}

\* ------------------------------------------------------------ variables
VARIABLES
  frames,      \* id -> frame object (BaseFrame fields and the subclass fields)
  tb,          \* TimeFrame._tb, the traceback log
  rt,          \* TimeFrame._rt[0] is not None
  hookCalls,   \* number of calls of the hook _rt[0] made so far
  clock,       \* time.perf_counter(), a logical clock
  stack,       \* the caller's open scopes, innermost last
  raised,      \* the exception propagating in the caller, or "None"
  exitExc,     \* id -> how the frame's scope ended: "NotExited", "None" for an
               \* exit that ran end(), else the exc_type failed() was run for
  apiCalls,    \* number of direct calls made outside the scope protocol
  out          \* what the renderer called last returned, and what it was given

vars ==
  <<frames, tb, rt, hookCalls, clock, stack, raised, exitExc, apiCalls, out>>

\* The objects the library mutates, as one value the operators transform.
Heap == [frames |-> frames, tb |-> tb, clock |-> clock, hookCalls |-> hookCalls]

Commit(h) ==
  /\ frames' = h.frames
  /\ tb' = h.tb
  /\ clock' = h.clock
  /\ hookCalls' = h.hookCalls

\* BaseFrame.__init__ plus the fields the subclasses add; 0 stands for None
\* in start and end.
NewFrame(kind, parent) ==
  [kind |-> kind, parent |-> parent, state |-> "FUTURE", start |-> 0, end |-> 0,
   frames |-> <<>>, retries |-> 0, curr_retries |-> 0, ignore_retries |-> {},
   check_exc_subclass |-> FALSE, rt_completed |-> FALSE, add_string |-> "None"]

\* ------------------------------------------------------------ BaseFrame

\* isinstance(state, State)
isinstance_State(s) == s \in State

\* A setter that raises nothing for a value that is no State.
setter_raises_nothing(s) == "None"

\* What the state setter raises for the value s.
setter_raises(s) == IF ~isinstance_State(s) THEN "ValueError" ELSE "None"

\* A setter that stores every State it is given, lower ones too.
state_setter_unchecked(h, f, s) ==
  IF ~isinstance_State(s) THEN h ELSE [h EXCEPT !.frames[f].state = s]

\* The state setter: a value that is no State is refused (setter_raises
\* has the exception) and a lower-or-equal value is dropped.
state_setter(h, f, s) ==
  IF ~isinstance_State(s)
  THEN h
  ELSE IF StateValue[s] <= StateValue[h.frames[f].state]
       THEN h
       ELSE [h EXCEPT !.frames[f].state = s]

perf_counter_tick(h) == [h EXCEPT !.clock = @ + 1]

start(h, f) ==
  state_setter(perf_counter_tick([h EXCEPT !.frames[f].start = h.clock]), f, "LOADING")

\* The for/else of end() without the "if self._frames" around it.
AllChildrenFailed_vacuous(h, f) ==
  /\ h.frames[f].kind \in Containers
  /\ \A i \in 1..Len(h.frames[f].frames) :
       h.frames[h.frames[f].frames[i]].state \in {"FAILED", "FATAL"}

\* The for/else of end() that takes an unfinished child for a failed one.
AllChildrenFailed_unfinished(h, f) ==
  /\ h.frames[f].kind \in Containers
  /\ Len(h.frames[f].frames) > 0
  /\ \A i \in 1..Len(h.frames[f].frames) :
       h.frames[h.frames[f].frames[i]].state \in {"FAILED", "FATAL", "FUTURE", "LOADING"}

\* The for/else of end() with the test inverted: one failed child is enough.
AllChildrenFailed_any(h, f) ==
  /\ h.frames[f].kind \in Containers
  /\ \E i \in 1..Len(h.frames[f].frames) :
       h.frames[h.frames[f].frames[i]].state \in {"FAILED", "FATAL"}

AllChildrenFailed(h, f) ==
  /\ h.frames[f].kind \in Containers
  /\ Len(h.frames[f].frames) > 0
  /\ \A i \in 1..Len(h.frames[f].frames) :
       h.frames[h.frames[f].frames[i]].state \in {"FAILED", "FATAL"}

\* self._end = time.perf_counter()
stamp_end(h, f) == perf_counter_tick([h EXCEPT !.frames[f].end = h.clock])

\* end(): a container with children all of which failed becomes FAILED.
end_aggregate(h, f) ==
  IF AllChildrenFailed(h, f) THEN state_setter(h, f, "FAILED") ELSE h

\* end(): SUCCESS unless the status is ISSUE, FAILED or FATAL.
end_success(h, f) ==
  IF h.frames[f].state \notin {"ISSUE", "FAILED", "FATAL"}
  THEN state_setter(h, f, "SUCCESS")
  ELSE h

\* end() that does not look at the children.
end_no_aggregate(h, f) == end_success(stamp_end(h, f), f)

end(h, f) == end_success(end_aggregate(stamp_end(h, f), f), f)

\* One record of the traceback log: the frame it is about, the state the
\* frame has then, and the detail (the exception the traceback is of).
TbEntry(h, f, detail) ==
  [frame |-> f, kind |-> h.frames[f].kind, state |-> h.frames[f].state,
   detail |-> detail]

\* failed(): the frame's own status, unless it is FATAL or FAILED already.
failed_mark(h, f, is_issue) ==
  IF h.frames[f].state \notin {"FATAL", "FAILED"}
  THEN state_setter(h, f, IF is_issue THEN "ISSUE" ELSE "FAILED")
  ELSE h

\* The propagation in which a failing Attempt marks its Action FAILED.
failed_propagate_all_failed(h, f) ==
  IF h.frames[f].kind \in {"Attempt", "Event", "Action"}
  THEN state_setter(h, h.frames[f].parent, "FAILED")
  ELSE h

\* The propagation in which an Attempt tells its Action nothing.
failed_propagate_containers_only(h, f) ==
  IF h.frames[f].kind \in {"Event", "Action"}
  THEN state_setter(h, h.frames[f].parent, "FAILED")
  ELSE h

\* failed(): an Attempt tells its parent ISSUE, an Event or Action FAILED.
failed_propagate(h, f) ==
  CASE h.frames[f].kind = "Attempt" -> state_setter(h, h.frames[f].parent, "ISSUE")
    [] h.frames[f].kind \in {"Event", "Action"} ->
         state_setter(h, h.frames[f].parent, "FAILED")
    [] OTHER -> h

\* The logging that records only what an Attempt reports.
failed_log_attempts_only(h, f, tbtext) ==
  IF tbtext # "None" /\ h.frames[f].kind = "Attempt"
  THEN perf_counter_tick([h EXCEPT !.tb = Append(@, TbEntry(h, f, tbtext))])
  ELSE h

\* failed(): with a traceback given, an entry is added to the root's log.
failed_log(h, f, tbtext) ==
  IF tbtext # "None"
  THEN perf_counter_tick([h EXCEPT !.tb = Append(@, TbEntry(h, f, tbtext))])
  ELSE h

\* failed(): a frame that is (only) ISSUE returns before telling its parent.
failed_report(h, f, tbtext) ==
  IF h.frames[f].state = "ISSUE"
  THEN h
  ELSE failed_log(failed_propagate(h, f), f, tbtext)

\* failed(is_issue, tb); tbtext = "None" stands for tb=None.
failed(h, f, is_issue, tbtext) ==
  failed_report(failed_mark(stamp_end(h, f), f, is_issue), f, tbtext)

\* The result of a scope exit handler: the objects afterwards, the returned
\* bool, and the exception the handler itself raised ("None" if it returned).
ExitResult(h, ret, exc) == [h |-> h, ret |-> ret, exc |-> exc]

\* BaseFrame.__exit__ after end() / failed(): an Attempt ends the iteration
\* by IterationCompleted or IterationFailed, else True is returned.
exit_signal(h, f) ==
  IF h.frames[f].kind = "Attempt"
  THEN IF h.frames[f].state \notin {"FAILED", "FATAL"}
       THEN ExitResult(h, FALSE, "IterationCompleted")
       ELSE IF h.frames[h.frames[f].parent].curr_retries
                 >= h.frames[h.frames[f].parent].retries
            THEN ExitResult(h, FALSE, "IterationFailed")
            ELSE ExitResult(h, TRUE, "None")
  ELSE ExitResult(h, TRUE, "None")

\* BaseFrame.__exit__
BaseFrame_exit(h, f, exc) ==
  exit_signal(IF exc = "None" \/ exc = "IterationCompleted"
              THEN end(h, f)
              ELSE failed(h, f, FALSE, exc),
              f)

\* ------------------------------------------------------------ TimeFrame hook
\* TimeFrame._trigger_sync: calls the hook if one is configured.
trigger_sync(h) == IF rt THEN [h EXCEPT !.hookCalls = @ + 1] ELSE h

\* TimeFrame._trigger_async: awaits the hook if one is configured.
trigger_async(h) == IF rt THEN [h EXCEPT !.hookCalls = @ + 1] ELSE h

\* --------------------------------------------------------------- Attempt
\* The test of Attempt.__exit__ for an error that must not be retried.
IsIgnored(h, f, exc) ==
  \/ exc \in h.frames[h.frames[f].parent].ignore_retries
  \/ /\ h.frames[h.frames[f].parent].check_exc_subclass
     /\ \E c \in h.frames[h.frames[f].parent].ignore_retries : issubclass(exc, c)

\* Attempt.__exit__ for an ignored error: status FATAL and the note.
mark_fatal(h, f, exc) ==
  [state_setter(h, f, "FATAL") EXCEPT !.frames[f].add_string = exc]

\* An ignored error is handed on as whatever super().__exit__ returned.
return_false_swallow(r) == r

\* Attempt.__exit__ for an ignored error: "return False" after
\* super().__exit__, unless that raised.
return_false(r) ==
  IF r.exc # "None" THEN r ELSE ExitResult(r.h, FALSE, "None")

\* Attempt.__exit__
Attempt_exit(h, f, exc) ==
  IF exc # "None" /\ IsIgnored(h, f, exc)
  THEN return_false(BaseFrame_exit(mark_fatal(h, f, exc), f, exc))
  ELSE BaseFrame_exit(h, f, exc)

\* The hook call of __enter__ with the flag kept on the root, so that the
\* hook is called for the first Attempt only.
enter_hook_root_flag(h, f) ==
  IF ~h.frames[1].rt_completed
  THEN [trigger_sync(h) EXCEPT !.frames[1].rt_completed = TRUE]
  ELSE h

\* Attempt.__enter__ / TimeFrame.__exit__: the hook is called unless this
\* frame's flag says the async handler has done so.
enter_hook(h, f) ==
  IF ~h.frames[f].rt_completed
  THEN [trigger_sync(h) EXCEPT !.frames[f].rt_completed = TRUE]
  ELSE h

\* Attempt.__enter__
Attempt_enter(h, f) == start(enter_hook(h, f), f)

\* Attempt.__aenter__
Attempt_aenter(h, f) ==
  Attempt_enter([trigger_async(h) EXCEPT !.frames[f].rt_completed = TRUE], f)

\* ---------------------------------------------------------------- Action
\* Action.create
Action_create(h, a) ==
  [h EXCEPT !.frames = Append(@, NewFrame("Attempt", a)),
            !.frames[a].frames = Append(@, Len(h.frames) + 1),
            !.frames[a].curr_retries = @ + 1]

\* Action.__next__: the objects afterwards and the Attempt returned
\* (0 for StopIteration).
NextResult(h, attempt) == [h |-> h, attempt |-> attempt]

\* self._frames[-1]
LastAttempt(h, a) == h.frames[a].frames[Len(h.frames[a].frames)]

\* __next__ that leaves a previous Attempt as it is.
next_close_previous_skip(h, a) == h

\* __next__: a previous Attempt still LOADING is taken to have succeeded.
next_close_previous(h, a) ==
  IF Len(h.frames[a].frames) >= 1 /\ h.frames[LastAttempt(h, a)].state = "LOADING"
  THEN state_setter(h, LastAttempt(h, a), "SUCCESS")
  ELSE h

\* __next__ without the test of the previous Attempt.
next_create_no_success_stop(h, a) ==
  NextResult(Action_create(h, a), Len(h.frames) + 1)

\* __next__: stop after a successful Attempt, else create the next one.
next_create(h, a) ==
  IF Len(h.frames[a].frames) >= 1 /\ h.frames[LastAttempt(h, a)].state = "SUCCESS"
  THEN NextResult(h, 0)
  ELSE NextResult(Action_create(h, a), Len(h.frames) + 1)

\* __next__ with ">" for ">=" in the budget test.
Action_next_off_by_one(h, a) ==
  IF h.frames[a].curr_retries > h.frames[a].retries
  THEN NextResult(h, 0)
  ELSE next_create(next_close_previous(h, a), a)

\* __next__ without the budget test.
Action_next_no_budget(h, a) ==
  next_create(next_close_previous(h, a), a)

Action_next(h, a) ==
  IF h.frames[a].curr_retries >= h.frames[a].retries
  THEN NextResult(h, 0)
  ELSE next_create(next_close_previous(h, a), a)

\* ----------------------------------------------------------------- Event
\* The keyword parameters Event.create declares.
Event_create_params == {"name", "retries", "ignore_retries"}

\* Event.create: check_exc_subclass is not passed on, so it keeps the
\* default of Action.__init__.
Event_create(h, e, retries, ignore_retries) ==
  [h EXCEPT !.frames = Append(@, [NewFrame("Action", e) EXCEPT
                                    !.retries = retries,
                                    !.ignore_retries = ignore_retries]),
            !.frames[e].frames = Append(@, Len(h.frames) + 1)]

\* ------------------------------------------------------------- TimeFrame
\* TimeFrame.create
TimeFrame_create(h, r) ==
  [h EXCEPT !.frames = Append(@, NewFrame("Event", r)),
            !.frames[r].frames = Append(@, Len(h.frames) + 1)]

\* TimeFrame.__exit__
TimeFrame_exit(h, f, exc) == BaseFrame_exit(enter_hook(h, f), f, exc)

\* TimeFrame.__aexit__: awaits the hook, sets the flag and awaits itself
\* again, level after level, until the interpreter's recursion limit
\* (RecursionLimit levels here) ends it with RecursionError;
\* BaseFrame.__aexit__ and with it __exit__, end() and failed() are never
\* reached.
RECURSIVE TimeFrame_aexit_level(_, _, _, _)
TimeFrame_aexit_level(h, f, exc, depth) ==
  IF depth >= RecursionLimit
  THEN ExitResult(h, FALSE, "RecursionError")
  ELSE TimeFrame_aexit_level([trigger_async(h) EXCEPT !.frames[f].rt_completed = TRUE],
                             f, exc, depth + 1)

TimeFrame_aexit(h, f, exc) == TimeFrame_aexit_level(h, f, exc, 0)

\* ------------------------------------------------------------ rendering
\* A rendering is the list "content" of lines that '\n'.join makes the text
\* of.  A line is kept as the prefix it starts with and the frame whose
\* __repr__ follows; frame 0 marks the summary line of _init_content.
\* Lengths are those of the Python strings, in characters as len() counts.
Line(prefix, f) == [prefix |-> prefix, frame |-> f]

\* len() of the prefixes that occur.
StrLen(str) ==
  CASE str = "" -> 0
    [] str = "\n" -> 1
    [] str \in {"> ", "  ", "# "} -> 2
    [] str = "-  " -> 3
    [] str \in {"> - ", "    "} -> 4
    [] str = "      " -> 6

\* len(Emoji.translate(state).value): the warning sign is two code points.
EmojiLen(s) == IF s = "ISSUE" THEN 2 ELSE 1

\* len(str(self._name)): an Attempt is named 'Attempt #n', the other frames
\* are created without a name (None).
NameLen(h, f) == IF h.frames[f].kind = "Attempt" THEN 10 ELSE 4

\* BaseFrame.duration < 0.001; a tick of the clock is taken to be no less
\* than that, so that only a frame never started has so short a duration.
IsBrief(h, f) == h.frames[f].start = 0

\* len(frame.__repr__())
ReprLen(h, f) ==
  EmojiLen(h.frames[f].state) + 1 + NameLen(h, f)
    + (IF IsBrief(h, f) /\ h.frames[f].state \in {"LOADING", "FUTURE"} THEN 0 ELSE 12)
    + (IF h.frames[f].kind = "Attempt" /\ h.frames[f].add_string # "None" THEN 44 ELSE 0)

\* len() of the one line of TimeFrame._init_content, for up to 9 frames.
InitContentLen(h) ==
  IF h.frames[1].state \in {"LOADING", "FUTURE"} THEN 38 ELSE 34

LineLen(h, line) ==
  IF line.frame = 0 THEN InitContentLen(h) ELSE StrLen(line.prefix) + ReprLen(h, line.frame)

RECURSIVE SumLen(_, _, _)
SumLen(h, content, i) ==
  IF i > Len(content) THEN 0 ELSE LineLen(h, content[i]) + SumLen(h, content, i + 1)

\* len('\n'.join(content))
JoinedLen(h, content) ==
  IF content = <<>> THEN 0 ELSE SumLen(h, content, 1) + Len(content) - 1

\* TimeFrame._init_content
init_content(h) == <<Line("", 0)>>

\* _check_recur that stops below any Action with a single Attempt.
check_recur_any_single(h, source) ==
  /\ h.frames[source].kind # "Attempt"
  /\ ~(h.frames[source].kind = "Action" /\ Len(h.frames[source].frames) = 1)

\* TimeFrame._check_recur
check_recur(h, source) ==
  /\ h.frames[source].kind # "Attempt"
  /\ ~(/\ h.frames[source].kind = "Action"
       /\ Len(h.frames[source].frames) = 1
       /\ h.frames[h.frames[source].frames[1]].state = "SUCCESS")

\* _get_space_dc
get_space_dc(index) ==
  CASE index = 2 -> "> "
    [] index = 3 -> "> - "
    [] OTHER -> ""

\* TimeFrame._recur_dc: the lines it adds to content.
RECURSIVE recur_dc(_, _, _, _), recur_dc_items(_, _, _, _, _)
recur_dc_items(h, items, i, index, limit) ==
  IF i > Len(items)
  THEN <<>>
  ELSE recur_dc(h, items[i], index, limit) \o recur_dc_items(h, items, i + 1, index, limit)

recur_dc(h, source, index, limit) ==
  (IF index # 0 THEN <<Line(get_space_dc(index), source)>> ELSE <<>>)
    \o (IF index + 1 > limit \/ ~check_recur(h, source)
        THEN <<>>
        ELSE recur_dc_items(h, h.frames[source].frames, 1, index + 1, limit))

\* TimeFrame._format_dc, before the join.
format_dc(h, limit) == init_content(h) \o recur_dc(h, 1, 0, limit)

\* What a renderer hands back: the text (as its content), or False, or the
\* exception it raised.
Text(content) == [kind |-> "text", content |-> content]

Failure(kind) == [kind |-> kind, content |-> <<>>]

\* frame_format_dc that gives up when the first cap does not fit.
frame_format_dc_first_only(h, limit, lim) ==
  IF JoinedLen(h, format_dc(h, lim)) <= limit
  THEN Text(format_dc(h, lim))
  ELSE Failure("False")

\* TimeFrame.frame_format_dc: "for lim in range(3, 0, -1)" from lim on.
RECURSIVE frame_format_dc_from(_, _, _)
frame_format_dc_from(h, limit, lim) ==
  IF lim < 1
  THEN Failure("False")
  ELSE IF JoinedLen(h, format_dc(h, lim)) <= limit
       THEN Text(format_dc(h, lim))
       ELSE frame_format_dc_from(h, limit, lim - 1)

frame_format_dc(h, limit) == frame_format_dc_from(h, limit, 3)

\* "  " * index
Indent(index) ==
  CASE index = 0 -> ""
    [] index = 1 -> "  "
    [] index = 2 -> "    "
    [] OTHER -> "      "

\* TimeFrame._recur_mono
RECURSIVE recur_mono(_, _, _), recur_mono_items(_, _, _, _)
recur_mono_items(h, items, i, index) ==
  IF i > Len(items)
  THEN <<>>
  ELSE recur_mono(h, items[i], index) \o recur_mono_items(h, items, i + 1, index)

recur_mono(h, source, index) ==
  <<Line(Indent(index), source)>>
    \o (IF ~check_recur(h, source)
        THEN <<>>
        ELSE recur_mono_items(h, h.frames[source].frames, 1, index + 1))

\* TimeFrame.frame_format_mono
frame_format_mono(h) == Text(init_content(h) \o recur_mono(h, 1, 0))

\* Two stretches of _recur_custom one after the other: an exception raised
\* in the first ends the whole.
Then(first, second) ==
  IF first.kind # "text" THEN first
  ELSE IF second.kind # "text" THEN second
  ELSE Text(first.content \o second.content)

\* _recur_custom: the line of the frame itself; style[index] with index
\* counted from 0, which raises IndexError past the end of the tuple.
custom_line(source, style, index) ==
  IF index + 1 > Len(style)
  THEN Failure("IndexError")
  ELSE IF style[index + 1] # "None"
       THEN Text(<<Line(style[index + 1], source)>>)
       ELSE Text(<<>>)

\* TimeFrame._recur_custom
RECURSIVE recur_custom(_, _, _, _), recur_custom_items(_, _, _, _, _)
recur_custom_items(h, items, i, style, index) ==
  IF i > Len(items)
  THEN Text(<<>>)
  ELSE Then(recur_custom(h, items[i], style, index),
            recur_custom_items(h, items, i + 1, style, index))

recur_custom(h, source, style, index) ==
  Then(custom_line(source, style, index),
       IF ~check_recur(h, source)
       THEN Text(<<>>)
       ELSE recur_custom_items(h, h.frames[source].frames, 1, style, index + 1))

\* TimeFrame.frame_format_custom
frame_format_custom(h, style) ==
  Then(Text(init_content(h)), recur_custom(h, 1, style, 0))

\* The value of out before any renderer was called, and after a call.
NoOutput == [renderer |-> "None", limit |-> 0, style |-> <<>>, result |-> Failure("None")]

Output(renderer, limit, style, result) ==
  [renderer |-> renderer, limit |-> limit, style |-> style, result |-> result]

\* ------------------------------------------------- the scope protocol
\* self.__enter__() by the class of the frame.
Dispatch_enter(h, f) ==
  IF h.frames[f].kind = "Attempt" THEN Attempt_enter(h, f) ELSE start(h, f)

\* self.__aenter__(): BaseFrame.__aenter__ calls self.__enter__().
Dispatch_aenter(h, f) ==
  IF h.frames[f].kind = "Attempt" THEN Attempt_aenter(h, f) ELSE Dispatch_enter(h, f)

\* self.__exit__(...) by the class of the frame.
Dispatch_exit(h, f, exc) ==
  CASE h.frames[f].kind = "Attempt" -> Attempt_exit(h, f, exc)
    [] h.frames[f].kind = "TimeFrame" -> TimeFrame_exit(h, f, exc)
    [] OTHER -> BaseFrame_exit(h, f, exc)

\* BaseFrame.__aexit__: IterationCompleted is swallowed, any other Exception
\* of self.__exit__ turns into a False result.
\* __aexit__ that catches IterationCompleted only.
aexit_result_completed_only(r) ==
  CASE r.exc = "IterationCompleted" -> ExitResult(r.h, TRUE, "None")
    [] OTHER -> r

\* __aexit__ that returns True whatever __exit__ raised.
aexit_result_swallow(r) ==
  CASE r.exc = "None" -> r
    [] OTHER -> ExitResult(r.h, TRUE, "None")

aexit_result(r) ==
  CASE r.exc = "None" -> r
    [] r.exc = "IterationCompleted" -> ExitResult(r.h, TRUE, "None")
    [] OTHER -> ExitResult(r.h, FALSE, "None")

BaseFrame_aexit(h, f, exc) == aexit_result(Dispatch_exit(h, f, exc))

\* What leaves a with / async with statement whose body ended with exc: the
\* exception the exit handler raised, else exc itself unless the handler
\* returned a true value.
Propagated(r, exc) ==
  IF r.exc # "None" THEN r.exc
  ELSE IF exc # "None" /\ ~r.ret THEN exc
  ELSE "None"

\* ------------------------------------------------------- the caller
\* The caller is a program of nested with / async with statements, as in
\* test.py: the root's scope holds Event scopes, an Event's scope holds
\* Action scopes, an Action's scope holds the loop "for frame in action"
\* whose body is the scope of the Attempt just returned.
Init ==
  /\ frames = <<NewFrame("TimeFrame", 0)>>
  /\ tb = <<>>
  /\ rt = TRUE
  /\ hookCalls = 0
  /\ clock = 1
  /\ stack = <<>>
  /\ raised = "None"
  /\ exitExc = <<"NotExited">>
  /\ apiCalls = 0
  /\ out = NoOutput

Root == 1

Top == stack[Len(stack)]

Ids == 1..Len(frames)

\* An open scope of the caller.  For an Attempt it records which statement
\* opened it (with / async with).  For a container both statements run the
\* same entry code (BaseFrame.__aenter__ returns self.__enter__()), so which
\* of the two it was is settled only where it makes a difference, at the exit.
ScopeEntry(f, kind, mode) ==
  [frame |-> f, mode |-> IF kind = "Attempt" THEN mode ELSE "with",
   pos |-> IF kind = "Action" THEN "loop" ELSE "body"]

\* A frame's scope is entered once.  The root's scope is entered by a
\* blocking with statement; an Attempt's scope is the body of the loop that
\* was just handed the Attempt.
CanEnter(f, mode) ==
  /\ raised = "None"
  /\ frames[f].start = 0
  /\ IF f = Root
     THEN stack = <<>> /\ mode = "sync"
     ELSE /\ stack # <<>>
          /\ frames[f].kind = "Attempt"
          /\ frames[f].parent = Top.frame
          /\ Top.pos = "yielded"
          /\ f = frames[Top.frame].frames[Len(frames[Top.frame].frames)]

\* with f: / async with f:  -- __enter__ / __aenter__
EnterScope(f, mode) ==
  /\ CanEnter(f, mode)
  /\ Commit(IF mode = "sync" THEN Dispatch_enter(Heap, f) ELSE Dispatch_aenter(Heap, f))
  /\ stack' = Append(stack, ScopeEntry(f, frames[f].kind, mode))
  /\ UNCHANGED <<out, rt, raised, exitExc, apiCalls>>

\* with time_frame.create(name=...) as event:
WithCreateEvent ==
  /\ raised = "None"
  /\ stack # <<>>
  /\ Top.frame = Root
  /\ Len(frames[Root].frames) < MaxEvents
  /\ Len(frames) < MaxFrames
  /\ Commit(Dispatch_enter(TimeFrame_create(Heap, Root), Len(frames) + 1))
  /\ stack' = Append(stack, ScopeEntry(Len(frames) + 1, "Event", "with"))
  /\ exitExc' = Append(exitExc, "NotExited")
  /\ UNCHANGED <<out, rt, raised, apiCalls>>

\* with event.create(name=..., retries=..., ignore_retries=...) as action:
WithCreateAction(retries, ignore_retries) ==
  /\ raised = "None"
  /\ stack # <<>>
  /\ frames[Top.frame].kind = "Event"
  /\ Len(frames[Top.frame].frames) < MaxActions
  /\ Len(frames) < MaxFrames
  /\ Commit(Dispatch_enter(Event_create(Heap, Top.frame, retries, ignore_retries),
                           Len(frames) + 1))
  /\ stack' = Append(stack, ScopeEntry(Len(frames) + 1, "Action", "with"))
  /\ exitExc' = Append(exitExc, "NotExited")
  /\ UNCHANGED <<out, rt, raised, apiCalls>>

\* One turn of "for frame in action": next(action).  StopIteration ends the
\* loop; otherwise the loop body runs with the Attempt returned.
IterNext ==
  /\ raised = "None"
  /\ stack # <<>>
  /\ frames[Top.frame].kind = "Action"
  /\ Top.pos = "loop"
  /\ LET r == Action_next(Heap, Top.frame)
     IN /\ Len(r.h.frames) <= MaxFrames
        /\ Commit(r.h)
        /\ stack' = [stack EXCEPT ![Len(stack)].pos =
                       IF r.attempt = 0 THEN "after" ELSE "yielded"]
        /\ exitExc' = IF r.attempt = 0 THEN exitExc ELSE Append(exitExc, "NotExited")
  /\ UNCHANGED <<out, rt, raised, apiCalls>>

\* next(action) asked for inside the body of an Attempt of that Action,
\* whose scope is still open.
NestedNext ==
  /\ raised = "None"
  /\ stack # <<>>
  /\ frames[Top.frame].kind = "Attempt"
  /\ LET r == Action_next(Heap, frames[Top.frame].parent)
     IN /\ Len(r.h.frames) <= MaxFrames
        /\ Commit(r.h)
        /\ exitExc' = IF r.attempt = 0 THEN exitExc ELSE Append(exitExc, "NotExited")
  /\ UNCHANGED <<out, rt, stack, raised, apiCalls>>

\* The exc_type a scope exit can receive: the exception propagating from an
\* inner scope, else what the frame's own body ends with.
ExitTypes(f) ==
  IF raised # "None" THEN {raised}
  ELSE IF frames[f].kind = "Attempt" THEN {"None"} \cup ErrorTypes
  ELSE {"None", "ValueError"}

Pop(s) == SubSeq(s, 1, Len(s) - 1)

\* The end of the innermost with / async with statement -- __exit__ /
\* __aexit__ -- and where the caller goes on: an exception leaving the
\* statement propagates to the enclosing scope, otherwise an Attempt's
\* loop takes its next turn.
ExitModes(f) ==
  IF f = Root THEN {"sync"}
  ELSE IF frames[f].kind = "Attempt" THEN {Top.mode}
  ELSE Modes

ExitScope(exc, mode) ==
  /\ stack # <<>>
  /\ exc \in ExitTypes(Top.frame)
  /\ mode \in ExitModes(Top.frame)
  /\ Top.pos # "yielded"
  /\ LET f == Top.frame
         r == IF mode = "sync"
              THEN Dispatch_exit(Heap, f, exc)
              ELSE BaseFrame_aexit(Heap, f, exc)
         rest == Pop(stack)
     IN /\ Commit(r.h)
        /\ raised' = Propagated(r, exc)
        /\ stack' = IF rest # <<>> /\ rest[Len(rest)].pos = "yielded"
                    THEN [rest EXCEPT ![Len(rest)].pos = "loop"]
                    ELSE rest
        /\ exitExc' = [exitExc EXCEPT ![f] = IF exc = "IterationCompleted" THEN "None" ELSE exc]
  /\ UNCHANGED <<out, rt, apiCalls>>

Next ==
  \/ \E f \in Ids, mode \in Modes : EnterScope(f, mode)
  \/ WithCreateEvent
  \/ \E retries \in 0..MaxRetries, ignore_retries \in IgnoreSets :
       WithCreateAction(retries, ignore_retries)
  \/ IterNext
  \/ NestedNext
  \/ \E exc \in ErrorTypes \cup {"None", "IterationCompleted", "IterationFailed"},
        mode \in Modes :
       ExitScope(exc, mode)

Spec == Init /\ [][Next]_vars

\* ------------------------------------------- the caller, continued
\* What a caller of the kind above can also write: the root's scope as an
\* async with statement, and event.create with the check_exc_subclass
\* keyword, as test.py passes it.

\* End of "async with TimeFrame(...) as time_frame:" -- TimeFrame.__aexit__.
\* The entry of the statement is the root's __enter__, as for the blocking
\* statement.
ExitRootAsync(exc) ==
  /\ stack # <<>>
  /\ Top.frame = Root
  /\ exc \in ExitTypes(Root)
  /\ Commit(TimeFrame_aexit(Heap, Root, exc).h)
  /\ raised' = Propagated(TimeFrame_aexit(Heap, Root, exc), exc)
  /\ stack' = Pop(stack)
  /\ exitExc' = [exitExc EXCEPT ![Root] = exc]
  /\ UNCHANGED <<out, rt, apiCalls>>

\* with event.create(retries=..., ignore_retries=..., check_exc_subclass=...):
\* a keyword Event.create does not declare is a TypeError of the call, and
\* no Action is made.
WithCreateActionSubclass(retries, ignore_retries, check_exc_subclass) ==
  /\ raised = "None"
  /\ stack # <<>>
  /\ frames[Top.frame].kind = "Event"
  /\ Len(frames[Top.frame].frames) < MaxActions
  /\ Len(frames) < MaxFrames
  /\ IF "check_exc_subclass" \in Event_create_params
     THEN /\ Commit(Dispatch_enter(
                 [Event_create(Heap, Top.frame, retries, ignore_retries)
                    EXCEPT !.frames[Len(frames) + 1].check_exc_subclass = check_exc_subclass],
                 Len(frames) + 1))
          /\ stack' = Append(stack, ScopeEntry(Len(frames) + 1, "Action", "with"))
          /\ exitExc' = Append(exitExc, "NotExited")
          /\ UNCHANGED <<out, rt, raised, apiCalls>>
     ELSE /\ raised' = "TypeError"
          /\ UNCHANGED <<out, frames, tb, rt, hookCalls, clock, stack, exitExc, apiCalls>>

NextFull ==
  \/ Next
  \/ \E exc \in ErrorTypes \cup {"None", "TypeError"} : ExitRootAsync(exc)
  \/ \E retries \in 0..MaxRetries, ignore_retries \in IgnoreSets,
        check_exc_subclass \in BOOLEAN :
       WithCreateActionSubclass(retries, ignore_retries, check_exc_subclass)
  \/ \E mode \in Modes : ExitScope("TypeError", mode)

SpecFull == Init /\ [][NextFull]_vars

\* ----------------------------------------------- the caller's report
\* After the root's scope the caller renders the hierarchy with the three
\* renderers, as test.py does.

\* The limits given to frame_format_dc: multiples of 20 and the default.
Limits == {20 * i : i \in 0..MaxLimitSteps} \cup {1024}

\* The styles given to frame_format_custom: the default, one with a second
\* None, and tuples of fewer than 4 prefixes.
Styles ==
  {<<"None", "\n", "-  ", "> - ">>,
   <<"# ", "None", "-  ", "> - ">>,
   <<"None", "\n", "-  ">>,
   <<"None", "\n">>,
   <<"# ">>}

\* The report is made once the root's scope has been left, one renderer
\* after the other.
CanRender(previous) ==
  /\ stack = <<>>
  /\ exitExc[Root] # "NotExited"
  /\ out.renderer = previous

Rendered(output) ==
  /\ out' = output
  /\ UNCHANGED <<frames, tb, rt, hookCalls, clock, stack, raised, exitExc, apiCalls>>

\* print(time_frame.frame_format_dc(limit))
RenderDc(limit) ==
  /\ CanRender("None")
  /\ Rendered(Output("dc", limit, <<>>, frame_format_dc(Heap, limit)))

\* print(time_frame.frame_format_mono())
RenderMono ==
  /\ CanRender("dc")
  /\ Rendered(Output("mono", 0, <<>>, frame_format_mono(Heap)))

\* print(time_frame.frame_format_custom(style))
RenderCustom(style) ==
  /\ CanRender("mono")
  /\ Rendered(Output("custom", 0, style, frame_format_custom(Heap, style)))

NextRender ==
  \/ Next
  \/ \E limit \in Limits : RenderDc(limit)
  \/ RenderMono
  \/ \E style \in Styles : RenderCustom(style)

SpecRender == Init /\ [][NextRender]_vars

\* ------------------------------------------------- the free caller
\* A caller that uses the frames' public members in any order, with no
\* nesting discipline: it creates children, asks an Action for its next
\* Attempt, assigns frame.state, calls start(), end(), failed(is_issue, tb),
\* and calls the scope handlers of any frame with any exc_type.  Exceptions
\* the handlers raise are caught by this caller.  MaxApiFrames bounds the
\* frames it creates and MaxApiCalls its other calls.
CanCall == apiCalls < MaxApiCalls

Called(h) ==
  /\ Commit(h)
  /\ apiCalls' = apiCalls + 1
  /\ raised' = "None"
  /\ UNCHANGED <<out, rt, stack, exitExc>>

Created(h) ==
  /\ Len(h.frames) <= MaxApiFrames
  /\ Commit(h)
  /\ raised' = "None"
  /\ UNCHANGED <<out, rt, stack, exitExc, apiCalls>>

\* time_frame.create()
ApiCreateEvent == Created(TimeFrame_create(Heap, Root))

\* event.create(retries=..., ignore_retries=...)
ApiCreateAction(e, retries, ignore_retries) ==
  /\ frames[e].kind = "Event"
  /\ Created(Event_create(Heap, e, retries, ignore_retries))

\* next(action)
ApiNext(a) ==
  /\ frames[a].kind = "Action"
  /\ Action_next(Heap, a).h # Heap
  /\ Created(Action_next(Heap, a).h)

\* frame.state = s; the caller catches what the setter raises.
SetState(f, s) ==
  /\ CanCall
  /\ Commit(state_setter(Heap, f, s))
  /\ apiCalls' = apiCalls + 1
  /\ raised' = setter_raises(s)
  /\ UNCHANGED <<out, rt, stack, exitExc>>

\* frame.start()
CallStart(f) == CanCall /\ Called(start(Heap, f))

\* frame.end()
CallEnd(f) == CanCall /\ Called(end(Heap, f))

\* frame.failed(is_issue, tb)
CallFailed(f, is_issue, tbtext) == CanCall /\ Called(failed(Heap, f, is_issue, tbtext))

\* frame.__enter__() / await frame.__aenter__()
CallEnter(f, mode) ==
  /\ CanCall
  /\ Called(IF mode = "sync" THEN Dispatch_enter(Heap, f) ELSE Dispatch_aenter(Heap, f))

\* frame.__exit__(exc_type, ...) / await frame.__aexit__(exc_type, ...);
\* the root's only the former.
CallExit(f, exc, mode) ==
  /\ CanCall
  /\ f = Root => mode = "sync"
  /\ Called(IF mode = "sync"
            THEN Dispatch_exit(Heap, f, exc).h
            ELSE BaseFrame_aexit(Heap, f, exc).h)

NextApi ==
  \/ ApiCreateEvent
  \/ \E e \in Ids, retries \in 0..MaxRetries, ignore_retries \in IgnoreSets :
       ApiCreateAction(e, retries, ignore_retries)
  \/ \E a \in Ids : ApiNext(a)
  \/ \E f \in Ids, s \in State \cup NonStates : SetState(f, s)
  \/ \E f \in Ids : CallStart(f)
  \/ \E f \in Ids : CallEnd(f)
  \/ \E f \in Ids, is_issue \in BOOLEAN, tbtext \in {"None", "ValueError"} :
       CallFailed(f, is_issue, tbtext)
  \/ \E f \in Ids, mode \in Modes : CallEnter(f, mode)
  \/ \E f \in Ids, exc \in ErrorTypes \cup {"None", "IterationCompleted"}, mode \in Modes :
       CallExit(f, exc, mode)

SpecApi == Init /\ [][NextApi]_vars

\* ------------------------------------------- the caller's retry loop
\* The caller of test.py: the body of "for frame in action:" is the Attempt's
\* with / async with statement and nothing else, so the loop is left only by
\* what next(action) and the Attempt's scope exit do.  The statements of a
\* sequential caller run one after the other, none is put off for ever.

\* with event.create(...) as action, where the Attempts the Action may
\* create still fit the bound on frames.
LoopCreateAction(retries, ignore_retries) ==
  /\ Len(frames) + 1 + retries <= MaxFrames
  /\ WithCreateAction(retries, ignore_retries)

\* The end of a with statement reached by the caller: an Action's once its
\* loop is over or an exception has come out of the loop.
LoopExitScope(exc, mode) ==
  /\ stack # <<>>
  /\ ~(Top.pos = "loop" /\ raised = "None")
  /\ ExitScope(exc, mode)

NextLoop ==
  \/ \E f \in Ids, mode \in Modes : EnterScope(f, mode)
  \/ WithCreateEvent
  \/ \E retries \in 0..MaxRetries, ignore_retries \in IgnoreSets :
       LoopCreateAction(retries, ignore_retries)
  \/ IterNext
  \/ \E exc \in ErrorTypes \cup {"None", "IterationCompleted", "IterationFailed"},
        mode \in Modes :
       LoopExitScope(exc, mode)

SpecLoop == Init /\ [][NextLoop]_vars /\ WF_vars(NextLoop)

\* ============================================================ properties
Children(f) == frames[f].frames

LastChild(f) == Children(f)[Len(Children(f))]

ChildSet(f) == {Children(f)[i] : i \in 1..Len(Children(f))}

OfKind(kind) == {f \in Ids : frames[f].kind = kind}

Exited(f) == exitExc[f] # "NotExited"

\* The scope of f has exited and the exit ran end().
ExitedNormally(f) == exitExc[f] = "None"

\* The scope of f has exited and the exit ran failed().
ExitedWithError(f) == Exited(f) /\ ~ExitedNormally(f)

\* The body of Attempt t raised an error that its Action does not ignore.
RaisedNonIgnored(t) ==
  /\ exitExc[t] \in ErrorTypes
  /\ exitExc[t] \notin frames[frames[t].parent].ignore_retries

\* The body of Attempt t raised an error of a category its Action ignores.
RaisedIgnored(t) ==
  /\ exitExc[t] \in ErrorTypes
  /\ exitExc[t] \in frames[frames[t].parent].ignore_retries

\* root -> Event e -> Action a and nothing else beside them.
Chain(e, a) ==
  /\ Children(Root) = <<e>>
  /\ Children(e) = <<a>>
  /\ frames[a].kind = "Action"

\* ------------------------------------------------------------------ C1
\* C1: in every step of every caller, whatever it calls (start, end, failed,
\* frame.state = s, the scope handlers, next(action), with the propagation
\* to parents these do), no frame's status moves to a lower severity; an
\* assignment of a lower-or-equal status leaves the status as it was.
C1_StatusNeverDecreases ==
  [][/\ \A f \in Ids : StateValue[frames'[f].state] >= StateValue[frames[f].state]
     /\ \A f \in Ids, s \in State :
          (SetState(f, s) /\ StateValue[s] <= StateValue[frames[f].state])
            => frames'[f].state = frames[f].state]_vars

\* An Attempt that was made FATAL and then failed(): it stays FATAL, and its
\* Action, told ISSUE by it, is ISSUE.
C1_Witness ==
  \E t \in OfKind("Attempt") :
    /\ frames[t].state = "FATAL"
    /\ frames[t].end # 0
    /\ frames[frames[t].parent].state = "ISSUE"
    /\ apiCalls = MaxApiCalls

\* ------------------------------------------------------------------ C2
AttemptsEntered == {t \in OfKind("Attempt") : frames[t].start # 0}

\* C2 as claimed: once the root's scope has exited, the hook has been called
\* exactly once in all.
C2_HookCalledOnce ==
  (rt /\ Exited(Root)) => hookCalls = 1

\* C2 as amended: the hook is called once before each Attempt scope is
\* entered and once more when the root's scope exits, so once the root's
\* scope has exited it has been called (Attempt scopes entered) + 1 times.
C2_HookPerAttemptAndAtExit ==
  rt => hookCalls = Cardinality(AttemptsEntered) + (IF Exited(Root) THEN 1 ELSE 0)

C2_Witness ==
  /\ rt
  /\ Exited(Root)
  /\ Cardinality(AttemptsEntered) = 2
  /\ hookCalls = 3

\* ------------------------------------------------------------------ C3
\* C3: an Action never has more Attempts than its retry budget, and
\* attempts-made never exceeds the budget.
C3_AttemptsWithinBudget ==
  \A a \in OfKind("Action") :
    /\ frames[a].curr_retries <= frames[a].retries
    /\ Len(Children(a)) <= frames[a].retries

\* An Action whose budget is used up, every Attempt having failed, and whose
\* scope has been left.
C3_Witness ==
  \E a \in OfKind("Action") :
    /\ frames[a].retries >= 1
    /\ frames[a].curr_retries = frames[a].retries
    /\ \A t \in ChildSet(a) : RaisedNonIgnored(t)
    /\ Exited(a)

\* ------------------------------------------------------------------ C4
EndedWithSuccess(t) == ExitedNormally(t) /\ frames[t].state = "SUCCESS"

\* C4: an Attempt whose scope has ended with status SUCCESS is the last
\* Attempt of its Action: none is produced after it.
C4_NoAttemptAfterSuccess ==
  \A a \in OfKind("Action") : \A i \in 1..Len(Children(a)) :
    EndedWithSuccess(Children(a)[i]) => i = Len(Children(a))

\* Budget remains after a successful Attempt, the loop has asked for the
\* next Attempt and was told to stop.
C4_Witness ==
  \E a \in OfKind("Action") :
    /\ Len(Children(a)) >= 1
    /\ EndedWithSuccess(LastChild(a))
    /\ frames[a].curr_retries < frames[a].retries
    /\ stack # <<>> /\ Top.frame = a /\ Top.pos = "after"

\* ------------------------------------------------------------------ C5
\* The scenario of C5 has run to its end: budget >= 2, every Attempt but the
\* last raised a non-ignored error, the last exited without error, and the
\* scopes of the Action, the Event and the root exited without error.
C5_Scenario(e, a) ==
  /\ Chain(e, a)
  /\ frames[a].retries >= 2
  /\ Len(Children(a)) >= 1
  /\ \A i \in 1..(Len(Children(a)) - 1) : RaisedNonIgnored(Children(a)[i])
  /\ ExitedNormally(LastChild(a))
  /\ ExitedNormally(a) /\ ExitedNormally(e) /\ ExitedNormally(Root)

\* C5 as claimed: the Action, the Event and the root are SUCCESS and
\* attempts-made is the number k of the Attempt that succeeded.
C5_AllSuccess ==
  \A e \in Ids, a \in Ids :
    C5_Scenario(e, a) =>
      /\ frames[a].state = "SUCCESS"
      /\ frames[e].state = "SUCCESS"
      /\ frames[Root].state = "SUCCESS"
      /\ frames[a].curr_retries = Len(Children(a))

\* C5 as amended: the Event and the root are SUCCESS and attempts-made = k;
\* the Action is SUCCESS only for k = 1 and is ISSUE for k >= 2.
C5_ActionIssueAfterRetry ==
  \A e \in Ids, a \in Ids :
    C5_Scenario(e, a) =>
      /\ frames[a].state = (IF Len(Children(a)) = 1 THEN "SUCCESS" ELSE "ISSUE")
      /\ frames[e].state = "SUCCESS"
      /\ frames[Root].state = "SUCCESS"
      /\ frames[a].curr_retries = Len(Children(a))

C5_Witness ==
  \E e \in Ids, a \in Ids :
    /\ C5_Scenario(e, a)
    /\ Len(Children(a)) = 2
    /\ frames[a].state = "ISSUE"

\* ------------------------------------------------------------------ C6
\* Every one of the N >= 1 Attempts of the budget raised a non-ignored error
\* and the scopes up to the root have exited.
AllAttemptsFailed(e, a) ==
  /\ Chain(e, a)
  /\ frames[a].retries >= 1
  /\ Len(Children(a)) = frames[a].retries
  /\ \A t \in ChildSet(a) : RaisedNonIgnored(t)
  /\ Exited(a) /\ Exited(e) /\ Exited(Root)

\* C6: then the Action, the Event and the root are FAILED.
C6_ExhaustedIsFailed ==
  \A e \in Ids, a \in Ids :
    AllAttemptsFailed(e, a) =>
      /\ frames[a].state = "FAILED"
      /\ frames[e].state = "FAILED"
      /\ frames[Root].state = "FAILED"

C6_Witness ==
  \E e \in Ids, a \in Ids :
    /\ AllAttemptsFailed(e, a)
    /\ frames[a].retries = 2
    /\ ExitedNormally(e) /\ ExitedNormally(Root)
    /\ frames[Root].state = "FAILED"

\* ------------------------------------------------------------------ C7
\* The scenario of C6 in which nothing else fails: the bodies of the Event
\* and of the root end without error.
C7_Scenario(e, a) ==
  /\ AllAttemptsFailed(e, a)
  /\ ExitedNormally(e) /\ ExitedNormally(Root)

\* C7 as claimed: the traceback log holds exactly N entries.
C7_OneEntryPerAttempt ==
  \A e \in Ids, a \in Ids :
    C7_Scenario(e, a) => Len(tb) = frames[a].retries

\* C7 as amended: the log holds N + 1 entries, one per failed Attempt and
\* one of the Action, whose scope exit is reached by the exception that
\* ends the loop (IterationFailed, or the last error itself from an
\* async with) and logs it.
C7_EntryPerAttemptAndAction ==
  \A e \in Ids, a \in Ids :
    C7_Scenario(e, a) =>
      /\ Len(tb) = frames[a].retries + 1
      /\ \A i \in 1..frames[a].retries : tb[i].frame = Children(a)[i]
      /\ tb[Len(tb)].frame = a

C7_Witness ==
  \E e \in Ids, a \in Ids :
    /\ C7_Scenario(e, a)
    /\ frames[a].retries = 2
    /\ Len(tb) = 3

\* ------------------------------------------------------------------ C8
HasFailed(f) == frames[f].state \in {"FAILED", "FATAL"}

\* C8 as claimed: a container with children whose scope exited normally is
\* FAILED iff every child is FAILED or FATAL.
C8_FailedIffAllChildrenFailed ==
  \A f \in Ids :
    (frames[f].kind \in Containers /\ Len(Children(f)) >= 1 /\ ExitedNormally(f)) =>
      (frames[f].state = "FAILED" <=> \A c \in ChildSet(f) : HasFailed(c))

\* C8 as amended: it is FAILED iff every child is FAILED or FATAL, or a
\* child's own failed() had set it FAILED before (an Event or Action child
\* whose scope exited with an error).
C8_FailedIffAllChildrenFailedOrToldSo ==
  \A f \in Ids :
    (frames[f].kind \in Containers /\ Len(Children(f)) >= 1 /\ ExitedNormally(f)) =>
      (frames[f].state = "FAILED" <=>
         \/ \A c \in ChildSet(f) : HasFailed(c)
         \/ \E c \in ChildSet(f) :
              frames[c].kind \in {"Event", "Action"} /\ ExitedWithError(c))

\* An Action whose Attempts all failed and whose loop was left before the
\* budget was used up: its normal exit makes it FAILED.
C8_Witness ==
  \E a \in OfKind("Action") :
    /\ ExitedNormally(a)
    /\ Len(Children(a)) >= 1
    /\ \A c \in ChildSet(a) : HasFailed(c)
    /\ frames[a].state = "FAILED"

\* ------------------------------------------------------------------ C9
\* C9: a container without children whose scope exited normally is SUCCESS.
C9_EmptyContainerSucceeds ==
  \A f \in Ids :
    (frames[f].kind \in Containers /\ Len(Children(f)) = 0 /\ ExitedNormally(f)) =>
      frames[f].state = "SUCCESS"

\* An Action with budget 0 whose scope was entered and left.
C9_Witness ==
  \E a \in OfKind("Action") :
    /\ frames[a].retries = 0
    /\ ExitedNormally(a)
    /\ Children(a) = <<>>
    /\ frames[a].state = "SUCCESS"

\* ----------------------------------------------------------------- C10
\* C10: an Attempt whose body raised an error of a category in its Action's
\* ignore set is FATAL and is the last Attempt of the Action.
C10_IgnoredErrorStopsRetrying ==
  \A t \in OfKind("Attempt") :
    RaisedIgnored(t) =>
      /\ frames[t].state = "FATAL"
      /\ t = LastChild(frames[t].parent)

\* Budget remains when the ignored error is raised, and the Action's scope
\* has been left.
C10_Witness ==
  \E t \in OfKind("Attempt") :
    /\ RaisedIgnored(t)
    /\ frames[frames[t].parent].curr_retries < frames[frames[t].parent].retries
    /\ Exited(frames[t].parent)

\* ----------------------------------------------------------------- C11
\* The scope about to be left is an Attempt's and exc is an error its Action
\* does not retry.
IgnoredAtExit(exc) ==
  /\ stack # <<>>
  /\ frames[Top.frame].kind = "Attempt"
  /\ exc \in ErrorTypes
  /\ IsIgnored(Heap, Top.frame, exc)

\* The budget of the Action of the Attempt about to be left is used up.
ExhaustedAtExit ==
  frames[frames[Top.frame].parent].curr_retries
    >= frames[frames[Top.frame].parent].retries

\* C11: an Attempt scope exit with an ignored error always gives the signal
\* StopIgnored (the handler returns False, so the error itself leaves the
\* with statement) and never StopExhausted (IterationFailed), whatever
\* attempts-made is.
C11_IgnoredNeverExhausted ==
  [][\A exc \in ErrorTypes, mode \in Modes :
       (IgnoredAtExit(exc) /\ ExitScope(exc, mode)) => raised' = exc]_vars

\* ----------------------------------------------------------------- C12
\* C12 as claimed: an error raised in an Attempt's body never leaves the
\* Attempt's with statement itself.
C12_ErrorNeverEscapes ==
  [][\A exc \in ErrorTypes, mode \in Modes :
       (stack # <<>> /\ frames[Top.frame].kind = "Attempt" /\ ExitScope(exc, mode))
         => raised' # exc]_vars

\* C12 as amended: the error itself leaves the Attempt's with statement
\* exactly when it is ignored (unless a blocking exit finds the budget used
\* up, which raises IterationFailed) or when an async exit finds the budget
\* used up; otherwise nothing or IterationFailed leaves it.  The Action's
\* scope exit stops whatever reaches it.
C12_ErrorEscapesWhenIgnoredOrAsyncExhausted ==
  [][/\ \A exc \in ErrorTypes, mode \in Modes :
          (stack # <<>> /\ frames[Top.frame].kind = "Attempt" /\ ExitScope(exc, mode))
            => /\ raised' = exc <=>
                    \/ IgnoredAtExit(exc) /\ ~(mode = "sync" /\ ExhaustedAtExit)
                    \/ mode = "async" /\ ExhaustedAtExit
               /\ raised' \in {exc, "None", "IterationFailed"}
               /\ raised' = "None" => (~IgnoredAtExit(exc) /\ ~ExhaustedAtExit)
     /\ \A exc \in ErrorTypes \cup {"IterationFailed"}, mode \in Modes :
          (stack # <<>> /\ frames[Top.frame].kind = "Action" /\ ExitScope(exc, mode))
            => raised' = "None"]_vars

\* An ignored error has left its Attempt's with statement, with budget
\* remaining, and is on its way to the Action's scope exit.
C12_Witness ==
  \E t \in OfKind("Attempt") :
    /\ RaisedIgnored(t)
    /\ raised = exitExc[t]
    /\ ~Exited(frames[t].parent)
    /\ frames[frames[t].parent].curr_retries < frames[frames[t].parent].retries

\* ----------------------------------------------------------------- C13
\* C13: the scope exit of a root, Event or Action whose body raised an
\* error, in the blocking and in the async variant, lets no error out and
\* has run failed() on the frame.
C13_ContainerSuppressesError ==
  [][\A exc \in ErrorTypes \cup {"TypeError"} :
       (/\ stack # <<>>
        /\ frames[Top.frame].kind \in Containers
        /\ \/ \E mode \in Modes : ExitScope(exc, mode)
           \/ ExitRootAsync(exc))
         => /\ raised' = "None"
            /\ frames'[Top.frame].end # 0
            /\ frames'[Top.frame].state \in {"FAILED", "FATAL"}]_vars

\* ----------------------------------------------------------------- C14
\* C14: a frame whose scope was entered and has exited normally, in either
\* variant, has an end timestamp and a terminal status.
C14_NormalExitIsTerminal ==
  \A f \in Ids :
    ExitedNormally(f) =>
      /\ frames[f].end # 0
      /\ frames[f].state \in {"SUCCESS", "ISSUE", "FAILED", "FATAL"}

\* ----------------------------------------------------------------- C15
\* C15: event.create with subclass matching enabled makes an Action that has
\* it enabled, and an Attempt error that is a strict subclass of an ignored
\* category makes the Attempt FATAL exactly when its Action has it enabled.
C15_SubclassMatchingThroughCreate ==
  [][/\ \A retries \in 0..MaxRetries, ignore_retries \in IgnoreSets :
          WithCreateActionSubclass(retries, ignore_retries, TRUE)
            => /\ Len(frames') = Len(frames) + 1
               /\ frames'[Len(frames')].kind = "Action"
               /\ frames'[Len(frames')].check_exc_subclass
               /\ raised' = "None"
     /\ \A exc \in ErrorTypes, mode \in Modes :
          (/\ stack # <<>>
           /\ frames[Top.frame].kind = "Attempt"
           /\ exc \notin frames[frames[Top.frame].parent].ignore_retries
           /\ \E c \in frames[frames[Top.frame].parent].ignore_retries : issubclass(exc, c)
           /\ ExitScope(exc, mode))
            => (frames'[Top.frame].state = "FATAL"
                  <=> frames[frames[Top.frame].parent].check_exc_subclass)]_vars

\* ----------------------------------------------------------------- C16
\* Depth of a frame in the hierarchy.
Depth(f) ==
  CASE frames[f].kind = "TimeFrame" -> 0
    [] frames[f].kind = "Event" -> 1
    [] frames[f].kind = "Action" -> 2
    [] frames[f].kind = "Attempt" -> 3

\* The only Attempt of its Action, and SUCCESS.
SingleSucceeded(t) ==
  /\ frames[t].kind = "Attempt"
  /\ Len(Children(frames[t].parent)) = 1
  /\ frames[t].state = "SUCCESS"

\* The frames in creation order, which is the order of the hierarchy here:
\* a scope is left before the next one beside it is opened.
IdSeq == [i \in 1..Len(frames) |-> i]

\* The frames of the lines of a rendering, the summary line left out.
FramesOf(content) == [i \in 1..(Len(content) - 1) |-> content[i + 1].frame]

\* The frames a depth cap d shows: Events, Actions from cap 2, Attempts
\* from cap 3.
ShownAtCap(d) ==
  SelectSeq(IdSeq, LAMBDA f : Depth(f) >= 1 /\ Depth(f) <= d /\ ~SingleSucceeded(f))

\* Size of the rendering with depth cap d.
DcLen(d) == JoinedLen(Heap, format_dc(Heap, d))

\* C16: frame_format_dc(limit) returns the rendering of the largest depth
\* cap among 3, 2, 1 whose size is within the limit, and False exactly when
\* the cap-1 rendering is not, so for every limit below the summary line.
C16_LargestCapThatFits ==
  out.renderer = "dc" =>
    /\ out.result.kind \in {"text", "False"}
    /\ out.result.kind = "False" <=> DcLen(1) > out.limit
    /\ out.limit < InitContentLen(Heap) => out.result.kind = "False"
    /\ out.result.kind = "text" =>
         \E d \in 1..3 :
           /\ DcLen(d) <= out.limit
           /\ \A e \in (d + 1)..3 : DcLen(e) > out.limit
           /\ out.result.content[1].frame = 0
           /\ FramesOf(out.result.content) = ShownAtCap(d)

\* The limit has room for Events and Actions but not for the Attempts.
C16_Witness ==
  /\ out.renderer = "dc"
  /\ out.result.kind = "text"
  /\ FramesOf(out.result.content) = ShownAtCap(2)
  /\ ShownAtCap(2) # ShownAtCap(1)
  /\ DcLen(3) > out.limit

\* ----------------------------------------------------------------- C17
\* Whether the renderer called was to show depth 3 at all.
AttemptsInScope ==
  CASE out.renderer = "dc" -> DcLen(3) <= out.limit
    [] out.renderer = "mono" -> TRUE
    [] out.renderer = "custom" -> Len(out.style) >= 4 /\ out.style[4] # "None"
    [] OTHER -> FALSE

\* The Attempts of Action a on the lines of the rendering, in line order.
AttemptsShown(a) ==
  SelectSeq(FramesOf(out.result.content), LAMBDA f : f \in ChildSet(a))

\* C17: in the text of each renderer no line is for anything below an
\* Attempt, and the Attempts of an Action are left out when the Action has
\* a single Attempt that is SUCCESS (or depth 3 is not to be shown), and are
\* otherwise all there in creation order.
C17_AttemptsOmittedIffSingleSuccess ==
  out.result.kind = "text" =>
    /\ \A i \in 1..Len(FramesOf(out.result.content)) :
         /\ FramesOf(out.result.content)[i] \in Ids
         /\ frames[FramesOf(out.result.content)[i]].parent = 0
              \/ frames[frames[FramesOf(out.result.content)[i]].parent].kind # "Attempt"
    /\ \A a \in OfKind("Action") :
         AttemptsShown(a) =
           IF AttemptsInScope /\ ~(Len(Children(a)) = 1 /\ SingleSucceeded(Children(a)[1]))
           THEN Children(a)
           ELSE <<>>

\* The indented renderer has shown an Action without the one Attempt it
\* has, which succeeded.
C17_Witness ==
  \E a \in OfKind("Action") :
    /\ out.renderer = "mono"
    /\ out.result.kind = "text"
    /\ Len(Children(a)) = 1
    /\ SingleSucceeded(Children(a)[1])
    /\ \E i \in 1..Len(FramesOf(out.result.content)) : FramesOf(out.result.content)[i] = a
    /\ AttemptsShown(a) = <<>>

\* ----------------------------------------------------------------- C18
\* C18: frame_format_custom with fewer than 4 prefixes returns text, on
\* which the frames at the depths the tuple covers are shown (unless the
\* prefix of the depth is None) and the frames at greater depths are not.
C18_ShortStyleRendersCoveredDepths ==
  (out.renderer = "custom" /\ Len(out.style) < 4) =>
    /\ out.result.kind = "text"
    /\ FramesOf(out.result.content) =
         SelectSeq(IdSeq, LAMBDA f : /\ Depth(f) < Len(out.style)
                                     /\ out.style[Depth(f) + 1] # "None"
                                     /\ ~SingleSucceeded(f))

\* ----------------------------------------------------------------- C19
\* C19: an assignment of a value that is no State to a frame's status raises
\* an error at the assignment and changes no frame.
C19_InvalidStateRejected ==
  [][\A f \in Ids, s \in NonStates :
       SetState(f, s) => (raised' = "ValueError" /\ frames' = frames)]_vars

\* The error of such an assignment, made to a frame that had moved on from
\* FUTURE, is with the caller.
C19_Witness ==
  /\ raised = "ValueError"
  /\ apiCalls = MaxApiCalls
  /\ \E f \in Ids : frames[f].state # "FUTURE"

\* ----------------------------------------------------------------- C20
\* d is below f in the hierarchy.
IsDescendant(d, f) ==
  \/ frames[d].parent = f
  \/ /\ frames[d].parent # 0
     /\ \/ frames[frames[d].parent].parent = f
        \/ /\ frames[frames[d].parent].parent # 0
           /\ frames[frames[frames[d].parent].parent].parent = f

Unfinished(f) == frames[f].state \in {"FUTURE", "LOADING"}

\* C20: end() and failed() of a container leave status, start and end time
\* of every frame below it as they were, and end() does not make FAILED a
\* container that has an unfinished child.
C20_ParentEndLeavesChildren ==
  [][\A f \in Ids :
       /\ (/\ frames[f].kind \in Containers
           /\ \/ CallEnd(f)
              \/ \E is_issue \in BOOLEAN, tbtext \in {"None", "ValueError"} :
                   CallFailed(f, is_issue, tbtext))
            => \A d \in Ids :
                 IsDescendant(d, f) =>
                   /\ frames'[d].state = frames[d].state
                   /\ frames'[d].start = frames[d].start
                   /\ frames'[d].end = frames[d].end
       /\ (/\ frames[f].kind \in Containers
           /\ CallEnd(f)
           /\ \E c \in ChildSet(f) : Unfinished(c)
           /\ frames[f].state # "FAILED")
            => frames'[f].state # "FAILED"]_vars

\* An Action that was ended while its one Attempt was still LOADING: the
\* Attempt is LOADING yet and the Action is SUCCESS.
C20_Witness ==
  \E a \in OfKind("Action") :
    /\ frames[a].end # 0
    /\ frames[a].state = "SUCCESS"
    /\ Len(Children(a)) = 1
    /\ frames[Children(a)[1]].state = "LOADING"

\* ----------------------------------------------------------------- C21
\* The innermost open scope is an Attempt's, its Action has budget left,
\* and that Action's most recent Attempt is LOADING.
OpenAttemptWithBudget ==
  /\ raised = "None"
  /\ stack # <<>>
  /\ frames[Top.frame].kind = "Attempt"
  /\ frames[frames[Top.frame].parent].curr_retries < frames[frames[Top.frame].parent].retries
  /\ frames[LastChild(frames[Top.frame].parent)].state = "LOADING"

\* C21: next(action) on an Action with budget left whose most recent
\* Attempt is LOADING makes that Attempt SUCCESS, returns no Attempt and
\* creates none: attempts-made and the Action's Attempts are as before.
C21_LoadingAttemptForcedToSuccess ==
  [][(OpenAttemptWithBudget /\ NestedNext) =>
       /\ Action_next(Heap, frames[Top.frame].parent).attempt = 0
       /\ frames'[LastChild(frames[Top.frame].parent)].state = "SUCCESS"
       /\ Len(frames') = Len(frames)
       /\ frames'[frames[Top.frame].parent].curr_retries
            = frames[frames[Top.frame].parent].curr_retries
       /\ frames'[frames[Top.frame].parent].frames
            = frames[frames[Top.frame].parent].frames]_vars

\* An Attempt whose scope is still open and that is SUCCESS already, with
\* budget left in its Action.
C21_Witness ==
  /\ stack # <<>>
  /\ frames[Top.frame].kind = "Attempt"
  /\ frames[Top.frame].state = "SUCCESS"
  /\ frames[Top.frame].end = 0
  /\ frames[frames[Top.frame].parent].curr_retries < frames[frames[Top.frame].parent].retries

\* ----------------------------------------------------------------- C24
\* C24: an Action that has an Attempt that is FAILED or FATAL is ISSUE,
\* FAILED or FATAL itself.
C24_ActionWithFailedAttemptIsIssue ==
  \A a \in OfKind("Action") :
    (\E t \in ChildSet(a) : HasFailed(t)) =>
      frames[a].state \in {"ISSUE", "FAILED", "FATAL"}

\* An Action that is ISSUE for a failed first Attempt while its second
\* Attempt is running.
C24_Witness ==
  \E a \in OfKind("Action") :
    /\ Len(Children(a)) = 2
    /\ frames[Children(a)[1]].state = "FAILED"
    /\ frames[Children(a)[2]].state = "LOADING"
    /\ frames[a].state = "ISSUE"

\* ------------------------------------------------------------------ C22
\* The Attempt scopes of Action a that were entered.
ScopesEntered(a) == {t \in ChildSet(a) : frames[t].start # 0}

\* The scope of Action a is open: its loop is running or is over.
LoopStarted(a) ==
  /\ a \in Ids
  /\ frames[a].kind = "Action"
  /\ \E i \in 1..Len(stack) : stack[i].frame = a

\* The caller is at Action a, outside the Attempts' scopes.
AtAction(a) == stack # <<>> /\ Top.frame = a /\ frames[a].kind = "Action"

\* next(action) raised StopIteration.
GeneratorExhausted(a) == AtAction(a) /\ Top.pos = "after" /\ raised = "None"

\* The last Attempt's exit raised IterationCompleted.
StopSuccess(a) ==
  /\ AtAction(a) /\ raised = "IterationCompleted"
  /\ frames[LastChild(a)].state = "SUCCESS"

\* The last Attempt's exit raised IterationFailed.
StopExhausted(a) ==
  /\ AtAction(a) /\ raised = "IterationFailed"
  /\ frames[a].curr_retries >= frames[a].retries
  /\ HasFailed(LastChild(a))

\* The last Attempt's exit returned False and the error left the loop.
StopIgnored(a) ==
  /\ AtAction(a) /\ raised \in ErrorTypes
  /\ HasFailed(LastChild(a))

LoopEnded(a) ==
  /\ a \in Ids
  /\ \/ Exited(a)
     \/ GeneratorExhausted(a)
     \/ StopSuccess(a)
     \/ StopExhausted(a)
     \/ StopIgnored(a)

\* C22: for every retry budget N and whatever the Attempts' bodies end with,
\* the loop "for attempt in action: with attempt: ..." enters at most N
\* Attempt scopes, leaves the Attempts' scopes with an exception only by
\* StopSuccess, StopExhausted or StopIgnored, and comes to an end: by one of
\* these three or by the generator's exhaustion.
C22_LoopTerminatesWithinBudget ==
  /\ [](\A a \in OfKind("Action") :
         /\ Cardinality(ScopesEntered(a)) <= frames[a].retries
         /\ (AtAction(a) /\ raised # "None") =>
              (StopSuccess(a) \/ StopExhausted(a) \/ StopIgnored(a)))
  /\ \A a \in 1..MaxFrames : LoopStarted(a) ~> LoopEnded(a)

\* A loop with budget 2 that came to its end by StopExhausted after two
\* Attempt scopes.
C22_Witness ==
  \E a \in OfKind("Action") :
    /\ frames[a].retries = 2
    /\ Cardinality(ScopesEntered(a)) = 2
    /\ StopExhausted(a)


\* ------------------------------------------------------------------ C23
\* What the body of the i-th Attempt of Action a ended with.
Outcome(a, i) == exitExc[Children(a)[i]]

\* The Attempts of Action a whose body ended with an error.
ErrorOutcomes(a) == {i \in 1..Len(Children(a)) : Outcome(a, i) \in ErrorTypes}

\* The last Attempt of Action a ended with an error.
EndedByError(a) ==
  Children(a) # <<>> /\ Outcome(a, Len(Children(a))) \in ErrorTypes

\* The status an Attempt of Action a has after a body that ended with
\* outcome, by the Action's configuration alone.
AttemptStateFor(a, outcome) ==
  IF outcome = "None" THEN "SUCCESS"
  ELSE IF outcome \in frames[a].ignore_retries THEN "FATAL"
  ELSE "FAILED"

\* The status of Action a after its loop, by its Attempts' outcomes alone.
ActionStateFor(a) ==
  IF EndedByError(a) THEN "FAILED"
  ELSE IF Len(Children(a)) >= 2 THEN "ISSUE"
  ELSE "SUCCESS"

\* root -> Event e -> Action a, all scopes of the Event left, where the
\* bodies of the root, the Event and the Action did nothing but run the
\* loop: no error reached a scope exit but one that came out of the loop.
LoopOnlyRun(e, a) ==
  /\ Chain(e, a)
  /\ ExitedNormally(e)
  /\ Exited(a)
  /\ exitExc[a] \in ErrorTypes => EndedByError(a)
  /\ ~ExitedWithError(Root)

\* C23: the number of Attempts, the final status of every Attempt, of the
\* Action and of the Event, and the number of traceback log entries are
\* settled by the Action's configuration (retries, ignore_retries) and the
\* outcomes of the Attempts' bodies alone, whether each Attempt's scope was
\* a with or an async with statement: the two ways of driving the loop
\* give the same.
C23_ModesGiveSameResult ==
  \A e \in Ids, a \in Ids :
    LoopOnlyRun(e, a) =>
      LET k == Len(Children(a))
      IN /\ k <= frames[a].retries
         /\ \A i \in 1..k :
              /\ Exited(Children(a)[i])
              /\ frames[Children(a)[i]].state = AttemptStateFor(a, Outcome(a, i))
              /\ i < k => AttemptStateFor(a, Outcome(a, i)) = "FAILED"
         /\ k < frames[a].retries =>
              (k >= 1 /\ AttemptStateFor(a, Outcome(a, k)) # "FAILED")
         /\ frames[a].state = ActionStateFor(a)
         /\ frames[e].state = IF EndedByError(a) THEN "FAILED" ELSE "SUCCESS"
         /\ Len(tb) = Cardinality(ErrorOutcomes(a)) + (IF EndedByError(a) THEN 1 ELSE 0)

\* A loop of budget 2 driven to exhaustion whose last Attempt scope was an
\* async with statement: the error itself, not IterationFailed, is what the
\* Action logged.
C23_Witness ==
  \E e \in Ids, a \in Ids :
    /\ LoopOnlyRun(e, a)
    /\ frames[a].retries = 2
    /\ Len(Children(a)) = 2
    /\ frames[a].state = "FAILED"
    /\ Len(tb) = 3
    /\ tb[3].frame = a
    /\ tb[3].detail \in ErrorTypes

====
